---- MODULE Spec2Model ----
(***************************************************************************)
(* A model of main.cc: the command-line harness that loads a compiled      *)
(* graph-executor module and either binds raw input files and runs it      *)
(* (inference) or times it (evaluate).                                     *)
(*                                                                         *)
(* Strings that the program takes apart (the command-line arguments) are   *)
(* sequences of one-character strings; strings it only compares (dtype     *)
(* names, the environment toggle) are TLA+ strings.  Integers wider than   *)
(* TLC's own are little-endian sequences of base-256 digits ("limbs"): an  *)
(* int is IntLimbs digits in two's complement, a size_t SizeLimbs digits.  *)
(***************************************************************************)
EXTENDS Integers, Sequences, FiniteSets, TLC

VARIABLES
    argv,         \* argv[1..argc-1] of the process (argv[0] is left out)
    input_info,   \* what the executor's get_input_info() returns
    out_shape,    \* the shape of the executor's output 0
    env,          \* the value of the environment variable cpp_bench_debug
    file_kind,    \* path -> kind, for the paths the run has looked at
    file_data,    \* path -> bytes, for the files the run has read
    pc,           \* where the program is
    err,          \* the diagnostic of the fatal check that ended the run
    i,            \* the loop index of main's and of the print loop
    module_path,
    input_paths,  \* std::unordered_map<std::string, std::string>
    dtype_map,    \* inference's local table, which operator[] can grow
    remaining,    \* keys of input_paths the range-for has not visited yet
    name,         \* the key of the current iteration
    shape,
    dtype,
    input_size,
    x,            \* the NDArray of the current iteration
    buffer,
    bound,        \* the set_input calls the executor has received, in order
    output_num,
    printed,      \* the rows written to standard output
    calls         \* the calls made to the runtime and the file system, in order

vars == <<argv, input_info, out_shape, env, file_kind, file_data, pc, err, i,
          module_path, input_paths, dtype_map, remaining, name, shape, dtype,
          input_size, x, buffer, bound, output_num, printed, calls>>

world == <<argv, input_info, out_shape, env>>

(***************************************************************************)
(* Bounds of the model.                                                    *)
(***************************************************************************)
MaxArgs == 2
MaxFileLen == 2
MaxOutputNum == 23
MaxSlots == 1

(***************************************************************************)
(* Widths of the C++ types, in base-256 digits.                            *)
(***************************************************************************)
IntLimbs == 4
SizeLimbs == 8

kDLInt == 0
kDLUInt == 1
kDLFloat == 2

(***************************************************************************)
(* std::string operations on sequences of characters.                      *)
(***************************************************************************)
npos == -1

\* A find that reports a missing character as the end of the string.
FindEnd(s, c) ==
    IF \E k \in 1..Len(s) : s[k] = c
    THEN (CHOOSE k \in 1..Len(s) : s[k] = c /\ \A j \in 1..(k - 1) : s[j] # c) - 1
    ELSE Len(s)

\* std::string::find(c): the 0-based position of the first c, or npos.
Find(s, c) ==
    IF \E k \in 1..Len(s) : s[k] = c
    THEN (CHOOSE k \in 1..Len(s) : s[k] = c /\ \A j \in 1..(k - 1) : s[j] # c) - 1
    ELSE npos

\* std::string::substr(pos, n), positions 0-based.
Substr(s, pos, n) == SubSeq(s, pos + 1, pos + n)

\* std::string::substr(pos): the rest of the string from pos.
SubstrFrom(s, pos) == SubSeq(s, pos + 1, Len(s))

\* An insertion that keeps the value of a key already present (emplace).
MapKeepFirst(m, k, v) ==
    [n \in DOMAIN m \cup {k} |-> IF n \in DOMAIN m THEN m[n] ELSE v]

\* m[k] = v on a std::unordered_map: insert or overwrite.
MapInsert(m, k, v) ==
    [n \in DOMAIN m \cup {k} |-> IF n = k THEN v ELSE m[n]]

EmptyMap == [n \in {} |-> <<>>]

(***************************************************************************)
(* Fixed-width arithmetic on limbs.                                        *)
(***************************************************************************)
RECURSIVE NatToLimbs(_, _)
NatToLimbs(n, k) ==
    IF k = 0 THEN <<>> ELSE <<n % 256>> \o NatToLimbs(n \div 256, k - 1)

RECURSIVE ColSum(_, _, _, _)
ColSum(a, b, p, j) ==
    IF j = 0 THEN 0 ELSE a[j] * b[p + 1 - j] + ColSum(a, b, p, j - 1)

RECURSIVE MulFrom(_, _, _, _)
MulFrom(a, b, p, carry) ==
    IF p > Len(a) THEN <<>>
    ELSE LET t == ColSum(a, b, p, p) + carry
         IN  <<t % 256>> \o MulFrom(a, b, p + 1, t \div 256)

\* a * b modulo 256^Len(a), for a and b of the same length.
MulLimbs(a, b) == MulFrom(a, b, 1, 0)

\* int -> size_t: sign extension.
SignExtend(a) ==
    a \o [k \in 1..(SizeLimbs - IntLimbs) |-> IF a[IntLimbs] >= 128 THEN 255 ELSE 0]

\* size_t -> int: the low 32 bits.
Trunc(a) == SubSeq(a, 1, IntLimbs)

RECURSIVE LimbsLess(_, _)
LimbsLess(a, b) ==
    IF Len(a) = 0 THEN FALSE
    ELSE LET n == Len(a)
         IN  IF a[n] # b[n] THEN a[n] < b[n]
             ELSE LimbsLess(SubSeq(a, 1, n - 1), SubSeq(b, 1, n - 1))


\* The longest prefix of data that nbytes covers.
Prefix(data, nbytes) ==
    SubSeq(data, 1, CHOOSE k \in 0..Len(data) :
                        \/ NatToLimbs(k, SizeLimbs) = nbytes
                        \/ k = Len(data) /\ LimbsLess(NatToLimbs(k, SizeLimbs), nbytes))

(***************************************************************************)
(* The sets the inputs are drawn from.                                     *)
(***************************************************************************)
ModulePath == <<"m">>
NameA == <<"a">>
NameB == <<"b">>
Names == {NameA, NameB}

ArgPool ==
    { <<"a", ":", "p">>, <<"a", ":", "q">>, <<"b", ":", "p">>,
      <<"b", ":", ":", "q">>, <<"a", "b">> }

SeqsUpTo(S, n) == UNION {[1..k -> S] : k \in 0..n}

ArgvPool == {<<>>} \cup {<<ModulePath>> \o s : s \in SeqsUpTo(ArgPool, MaxArgs)}

LoaderArgvs ==
    { <<>>, <<ModulePath>>, <<ModulePath, <<"a", "b">>>>,
      <<ModulePath, <<"a", ":", "p">>>> }

DTypePool ==
    {"float32", "float16", "int8", "uint8", "int16", "uint16", "int32", "float64"}

ShapePool ==
    { <<>>, <<0>>, <<2>>, <<1, 2>>, <<2, 3>>, <<65536, 65536>>, <<32768, 65536>> }

\* A descriptor: the declared shape and the declared dtype of each input.
InfoOf(D, f) == [shape |-> [n \in D |-> f[n][1]], dtype |-> [n \in D |-> f[n][2]]]

InfosOver(decls) ==
    UNION { {InfoOf(D, f) : f \in [D -> decls]} : D \in SUBSET Names }

MainDecls == { <<<<2>>, "uint8">>, <<<<1>>, "int16">>, <<<<2>>, "int32">> }

InfoPool == InfosOver(MainDecls)

LoaderInfos ==
    { InfoOf({NameA}, [n \in {NameA} |-> d]) : d \in ShapePool \X DTypePool }
    \cup { InfoOf({}, <<>>),
           [shape |-> [n \in {NameA} |-> <<2>>], dtype |-> [n \in {} |-> ""]] }

PrintInfos == { InfoOf({NameA}, [n \in {NameA} |-> <<<<2>>, "uint8">>]) }

OutShapes == {<<n>> : n \in 0..MaxOutputNum} \cup {<<3, 7>>}

\* <<>> is an unset variable, <<v>> one set to v.
EnvPool == { <<>>, <<"ON">>, <<"OFF">>, <<"on">>, <<"">> }

FileKinds == {"missing", "dir", "file"}
Bytes == {0, 255}
Contents == SeqsUpTo(Bytes, MaxFileLen)

(***************************************************************************)
(* inference's locals.                                                     *)
(***************************************************************************)
DLDataType(c, b, l) == [code |-> c, bits |-> b, lanes |-> l]

\* A value-initialized DLDataType, what operator[] inserts for a new key.
ZeroType == DLDataType(0, 0, 0)

InitialDTypeMap ==
    [s \in {"float32", "float16", "int8", "uint8", "int16", "uint16"} |->
        CASE s = "float32" -> DLDataType(kDLFloat, 32, 1)
          [] s = "float16" -> DLDataType(kDLFloat, 16, 1)
          [] s = "int8"    -> DLDataType(kDLInt, 8, 1)
          [] s = "uint8"   -> DLDataType(kDLUInt, 8, 1)
          [] s = "int16"   -> DLDataType(kDLInt, 16, 1)
          [] s = "uint16"  -> DLDataType(kDLUInt, 16, 1)]

\* dtype_map[key] on the std::unordered_map: the map after the lookup.
DTypeMapAfter(m, key) ==
    IF key \in DOMAIN m THEN m
    ELSE [s \in DOMAIN m \cup {key} |-> IF s = key THEN ZeroType ELSE m[s]]

RECURSIVE AccFrom(_, _, _)
AccFrom(acc, sh, k) ==
    IF k > Len(sh) THEN acc
    ELSE AccFrom(Trunc(MulLimbs(SignExtend(acc), NatToLimbs(sh[k], SizeLimbs))),
                 sh, k + 1)

\* std::accumulate(begin, end, 1, std::multiplies<size_t>()): the accumulator
\* has the type of the initial value 1, an int; each product is formed in
\* size_t and stored back into the int.
Accumulate(sh) == AccFrom(NatToLimbs(1, IntLimbs), sh, 1)

\* accumulate(...) * (dtype.bits / 8), an int times an int, converted to size_t.
\* A product outside int is undefined: the build either keeps the low 32 bits
\* or computes in the 64-bit register.
InputSizeOutcomes(sh, dt) ==
    LET full    == MulLimbs(SignExtend(Accumulate(sh)),
                            NatToLimbs(dt.bits \div 8, SizeLimbs))
        wrapped == SignExtend(Trunc(full))
    IN  IF full = wrapped THEN {full} ELSE {wrapped, full}

NoTensor == [shape |-> <<>>, dtype |-> ZeroType, data |-> <<>>, filled |-> FALSE]

\* A CopyFromBytes that stores the bytes in reverse order.
CopyReversed(t, data, nbytes) ==
    LET b == Prefix(data, nbytes)
    IN  [t EXCEPT !.data = [k \in 1..Len(b) |-> b[Len(b) + 1 - k]], !.filled = TRUE]

\* x.CopyFromBytes(data, nbytes): the tensor after the copy.
CopyFromBytes(t, data, nbytes) ==
    [t EXCEPT !.data = Prefix(data, nbytes), !.filled = TRUE]

Call(op, arg) == [op |-> op, arg |-> arg]

ZeroSize == NatToLimbs(0, SizeLimbs)

(***************************************************************************)
(* The initial states.                                                     *)
(***************************************************************************)
InitWith(argvs, infos, outs, envs) ==
    /\ argv \in argvs
    /\ input_info \in infos
    /\ out_shape \in outs
    /\ env \in envs
    /\ file_kind = EmptyMap
    /\ file_data = EmptyMap
    /\ pc = "main"
    /\ err = "none"
    /\ i = 0
    /\ module_path = <<>>
    /\ input_paths = EmptyMap
    /\ dtype_map = InitialDTypeMap
    /\ remaining = {}
    /\ name = <<>>
    /\ shape = <<>>
    /\ dtype = ZeroType
    /\ input_size = ZeroSize
    /\ x = NoTensor
    /\ buffer = <<>>
    /\ bound = <<>>
    /\ output_num = ZeroSize
    /\ printed = <<>>
    /\ calls = <<>>

Init == InitWith(ArgvPool, InfoPool, {<<12>>}, {<<>>, <<"ON">>})

InitLoader == InitWith(LoaderArgvs, LoaderInfos, {<<12>>}, {<<>>, <<"ON">>})

InitPrint == InitWith(LoaderArgvs, PrintInfos, OutShapes, EnvPool)

argc == Len(argv) + 1

\* A failed ICHECK, or an exception nothing catches: the process ends.
Fatal(e) == pc' = "abort" /\ err' = e

(***************************************************************************)
(* main                                                                    *)
(***************************************************************************)
\* ICHECK_GE(argc, 2); module_path = argv[1]; the loop starts at i = 2.
Main ==
    /\ pc = "main"
    /\ IF argc >= 2
       THEN /\ module_path' = argv[1]
            /\ i' = 2
            /\ pc' = "parse"
            /\ err' = err
       ELSE /\ Fatal("usage")
            /\ UNCHANGED <<module_path, i>>
    /\ UNCHANGED <<world, file_kind, file_data, input_paths, dtype_map, remaining,
                   name, shape, dtype, input_size, x, buffer, bound, output_num,
                   printed, calls>>

\* One turn of the loop over argv[2..]: split at the colon and insert.
ParseArg ==
    /\ pc = "parse"
    /\ i < argc
    /\ LET tmp    == argv[i]
           center == Find(tmp, ":")
       IN  IF center # npos
           THEN /\ input_paths' = MapInsert(input_paths, Substr(tmp, 0, center),
                                            SubstrFrom(tmp, center + 1))
                /\ i' = i + 1
                /\ UNCHANGED <<pc, err>>
           ELSE /\ Fatal("format")
                /\ UNCHANGED <<input_paths, i>>
    /\ UNCHANGED <<world, file_kind, file_data, module_path, dtype_map, remaining,
                   name, shape, dtype, input_size, x, buffer, bound, output_num,
                   printed, calls>>

\* The loop is over: main calls DeployGraphExecutor.
ParseDone ==
    /\ pc = "parse"
    /\ ~(i < argc)
    /\ pc' = "deploy"
    /\ UNCHANGED <<world, file_kind, file_data, err, i, module_path, input_paths,
                   dtype_map, remaining, name, shape, dtype, input_size, x, buffer,
                   bound, output_num, printed, calls>>

(***************************************************************************)
(* DeployGraphExecutor                                                     *)
(***************************************************************************)
\* A dispatch that always runs inference.
DispatchInference(paths) == "inference"

\* if (input_paths.empty()) evaluate(...) else inference(...)
Dispatch(paths) == IF DOMAIN paths = {} THEN "evaluate" ELSE "inference"

\* LoadFromFile and the "default" factory, which the runtime may refuse, then
\* the dispatch.
DeployGraphExecutor ==
    /\ pc = "deploy"
    /\ calls' = Append(calls, Call("LoadFromFile", module_path))
    /\ \E ok \in BOOLEAN :
          IF ok THEN pc' = Dispatch(input_paths) /\ err' = err
                ELSE Fatal("load")
    /\ UNCHANGED <<world, file_kind, file_data, i, module_path, input_paths,
                   dtype_map, remaining, name, shape, dtype, input_size, x, buffer,
                   bound, output_num, printed>>

(***************************************************************************)
(* inference                                                               *)
(***************************************************************************)
\* The prologue: get_input_info() is queried once and dtype_map is built.
InferenceStart ==
    /\ pc = "inference"
    /\ calls' = Append(calls, Call("get_input_info", <<>>))
    /\ dtype_map' = InitialDTypeMap
    /\ remaining' = DOMAIN input_paths
    /\ pc' = "loop"
    /\ UNCHANGED <<world, file_kind, file_data, err, i, module_path, input_paths,
                   name, shape, dtype, input_size, x, buffer, bound, output_num,
                   printed>>

\* The range-for takes the next entry, in an order the container chooses, and
\* checks that its path is an existing regular file.
LoopNext ==
    /\ pc = "loop"
    /\ \E n \in remaining :
       \E k \in FileKinds :
          LET path == input_paths[n]
          IN  /\ path \in DOMAIN file_kind => k = file_kind[path]
              /\ file_kind' = MapInsert(file_kind, path, k)
              /\ name' = n
              /\ calls' = Append(calls, Call("exists", path))
              /\ IF k = "file" THEN pc' = "lookup" /\ err' = err
                               ELSE Fatal("not a file")
    /\ UNCHANGED <<world, file_data, i, module_path, input_paths, dtype_map,
                   remaining, shape, dtype, input_size, x, buffer, bound,
                   output_num, printed>>

\* shape_info[name], dtype_map[dtype_info[name]] and input_size.  A key that a
\* tvm::Map does not hold throws; a key that dtype_map does not hold is
\* inserted with a value-initialized DLDataType.
Lookup ==
    /\ pc = "lookup"
    /\ IF name \in DOMAIN input_info.shape /\ name \in DOMAIN input_info.dtype
       THEN LET key == input_info.dtype[name]
                m   == DTypeMapAfter(dtype_map, key)
            IN  /\ dtype_map' = m
                /\ shape' = input_info.shape[name]
                /\ dtype' = m[key]
                /\ input_size' \in InputSizeOutcomes(input_info.shape[name], m[key])
                /\ pc' = "alloc"
                /\ err' = err
       ELSE /\ Fatal("key is not in Map")
            /\ UNCHANGED <<dtype_map, shape, dtype, input_size>>
    /\ UNCHANGED <<world, file_kind, file_data, i, module_path, input_paths,
                   remaining, name, x, buffer, bound, output_num, printed, calls>>

\* The ifstream is opened and NDArray::Empty allocates the tensor; the runtime
\* may refuse the allocation.
Alloc ==
    /\ pc = "alloc"
    /\ calls' = calls \o << Call("ifstream", input_paths[name]), Call("Empty", name) >>
    /\ \E ok \in BOOLEAN :
          IF ok
          THEN /\ x' = [shape |-> shape, dtype |-> dtype, data |-> <<>>,
                        filled |-> FALSE]
               /\ pc' = "read"
               /\ err' = err
          ELSE /\ Fatal("alloc")
               /\ x' = x
    /\ UNCHANGED <<world, file_kind, file_data, i, module_path, input_paths,
                   dtype_map, remaining, name, shape, dtype, input_size, buffer,
                   bound, output_num, printed>>

\* The whole file is read into buffer.
Read ==
    /\ pc = "read"
    /\ \E c \in Contents :
          LET path == input_paths[name]
          IN  /\ path \in DOMAIN file_data => c = file_data[path]
              /\ file_data' = MapInsert(file_data, path, c)
              /\ buffer' = c
              /\ calls' = Append(calls, Call("read", path))
    /\ pc' = "check"
    /\ UNCHANGED <<world, file_kind, err, i, module_path, input_paths, dtype_map,
                   remaining, name, shape, dtype, input_size, x, bound, output_num,
                   printed>>

\* buffer.size() == input_size
SizeMatches(buf, size) == NatToLimbs(Len(buf), SizeLimbs) = size

\* A check placed after set_input: the tensor is filled and bound, then the
\* lengths are compared.
CheckAfterSet ==
    /\ pc = "check"
    /\ IF SizeMatches(buffer, input_size)
       THEN /\ pc' = "copy"
            /\ err' = err
            /\ calls' = Append(calls, Call("ICHECK_EQ", name))
            /\ bound' = bound
       ELSE /\ Fatal("size mismatch")
            /\ calls' = calls \o << Call("CopyFromBytes", name), Call("set_input", name) >>
            /\ bound' = Append(bound, [name |-> name,
                                       tensor |-> CopyFromBytes(x, buffer, input_size)])
    /\ UNCHANGED <<world, file_kind, file_data, i, module_path, input_paths,
                   dtype_map, remaining, name, shape, dtype, input_size, x, buffer,
                   output_num, printed>>

\* A check placed after the copy: the tensor is filled, then the lengths are
\* compared.
CheckAfterCopy ==
    /\ pc = "check"
    /\ x' = CopyFromBytes(x, buffer, input_size)
    /\ IF SizeMatches(buffer, input_size)
       THEN /\ pc' = "copy"
            /\ err' = err
            /\ calls' = calls \o << Call("CopyFromBytes", name), Call("ICHECK_EQ", name) >>
       ELSE /\ Fatal("size mismatch")
            /\ calls' = Append(calls, Call("CopyFromBytes", name))
    /\ UNCHANGED <<world, file_kind, file_data, i, module_path, input_paths,
                   dtype_map, remaining, name, shape, dtype, input_size, buffer,
                   bound, output_num, printed>>

\* A check that skips the input on a mismatch and goes on with the next one.
CheckOrSkip ==
    /\ pc = "check"
    /\ IF SizeMatches(buffer, input_size)
       THEN /\ pc' = "copy"
            /\ calls' = Append(calls, Call("ICHECK_EQ", name))
            /\ remaining' = remaining
       ELSE /\ pc' = "loop"
            /\ calls' = calls
            /\ remaining' = remaining \ {name}
    /\ UNCHANGED <<world, file_kind, file_data, err, i, module_path, input_paths,
                   dtype_map, name, shape, dtype, input_size, x, buffer,
                   bound, output_num, printed>>

\* ICHECK_EQ(buffer.size(), input_size)
Check ==
    /\ pc = "check"
    /\ IF SizeMatches(buffer, input_size)
       THEN /\ pc' = "copy"
            /\ err' = err
            /\ calls' = Append(calls, Call("ICHECK_EQ", name))
       ELSE /\ Fatal("size mismatch")
            /\ calls' = calls
    /\ UNCHANGED <<world, file_kind, file_data, i, module_path, input_paths,
                   dtype_map, remaining, name, shape, dtype, input_size, x, buffer,
                   bound, output_num, printed>>

\* x.CopyFromBytes(buffer.data(), input_size); set_input(name, x); the
\* iteration ends and its locals go out of scope.
CopyAndSet ==
    /\ pc = "copy"
    /\ LET t == CopyFromBytes(x, buffer, input_size)
       IN  bound' = Append(bound, [name |-> name, tensor |-> t])
    /\ calls' = calls \o << Call("CopyFromBytes", name), Call("set_input", name) >>
    /\ remaining' = remaining \ {name}
    /\ name' = <<>>
    /\ shape' = <<>>
    /\ dtype' = ZeroType
    /\ input_size' = ZeroSize
    /\ x' = NoTensor
    /\ buffer' = <<>>
    /\ pc' = "loop"
    /\ UNCHANGED <<world, file_kind, file_data, err, i, module_path, input_paths,
                   dtype_map, output_num, printed>>

\* Every entry has been visited: run().
Run ==
    /\ pc = "loop"
    /\ remaining = {}
    /\ calls' = Append(calls, Call("run", <<>>))
    /\ pc' = "output"
    /\ UNCHANGED <<world, file_kind, file_data, err, i, module_path, input_paths,
                   dtype_map, remaining, name, shape, dtype, input_size, x, buffer,
                   bound, output_num, printed>>

\* env_p != nullptr && strcmp(env_p, "ON") == 0
DebugOn(e) == e # <<>> /\ e[1] = "ON"

\* get_output(0), the toggle, and output_num when the toggle is on.
GetOutput ==
    /\ pc = "output"
    /\ calls' = calls \o << Call("get_output", 0), Call("getenv", <<>>) >>
    /\ IF DebugOn(env)
       THEN /\ output_num' = SignExtend(Accumulate(out_shape))
            /\ i' = 0
            /\ pc' = "print"
       ELSE /\ pc' = "done"
            /\ UNCHANGED <<output_num, i>>
    /\ UNCHANGED <<world, file_kind, file_data, err, module_path, input_paths,
                   dtype_map, remaining, name, shape, dtype, input_size, x, buffer,
                   bound, printed>>

\* A row guard that rounds the number of rows up.
RowGuardUp(r, n) == LimbsLess(NatToLimbs(10 * r, SizeLimbs), n)

\* r < n / 10 in size_t, which is 10 * (r + 1) <= n.
RowGuard(r, n) == ~LimbsLess(n, NatToLimbs(10 * (r + 1), SizeLimbs))

\* The elements the inner loop writes for row r: r*10+j for j = 0.. while
\* j < 10 and r*10+j < n.
RowElems(r, n) ==
    LET js == {j \in 0..9 : \A h \in 0..j : LimbsLess(NatToLimbs(r * 10 + h, SizeLimbs), n)}
    IN  [k \in 1..Cardinality(js) |-> r * 10 + k - 1]

\* One turn of the outer print loop.
PrintRow ==
    /\ pc = "print"
    /\ RowGuard(i, output_num)
    /\ printed' = Append(printed, [kind |-> "row",
                                   prefix |-> <<i * 10, (i + 1) * 10 - 1>>,
                                   elems |-> RowElems(i, output_num)])
    /\ i' = i + 1
    /\ UNCHANGED <<world, file_kind, file_data, pc, err, module_path, input_paths,
                   dtype_map, remaining, name, shape, dtype, input_size, x, buffer,
                   bound, output_num, calls>>

\* The outer print loop ends and inference returns.
PrintDone ==
    /\ pc = "print"
    /\ ~RowGuard(i, output_num)
    /\ pc' = "done"
    /\ UNCHANGED <<world, file_kind, file_data, err, i, module_path, input_paths,
                   dtype_map, remaining, name, shape, dtype, input_size, x, buffer,
                   bound, output_num, printed, calls>>

(***************************************************************************)
(* evaluate                                                                *)
(***************************************************************************)
\* The time evaluator is built over "run" with 10, 1, 500, "".
Evaluate ==
    /\ pc = "evaluate"
    /\ calls' = Append(calls, Call("RPCTimeEvaluator", <<"run", 10, 1, 500>>))
    /\ pc' = "gather"
    /\ UNCHANGED <<world, file_kind, file_data, err, i, module_path, input_paths,
                   dtype_map, remaining, name, shape, dtype, input_size, x, buffer,
                   bound, output_num, printed>>

\* The handles of every input and output slot are gathered as flat arguments.
Gather ==
    /\ pc = "gather"
    /\ \E num_inputs \in 0..MaxSlots, num_outputs \in 0..MaxSlots :
          calls' = calls
                   \o << Call("get_num_inputs", <<>>), Call("get_num_outputs", <<>>) >>
                   \o [k \in 1..num_inputs |-> Call("get_input", k - 1)]
                   \o [k \in 1..num_outputs |-> Call("get_output", k - 1)]
    /\ pc' = "timing"
    /\ UNCHANGED <<world, file_kind, file_data, err, i, module_path, input_paths,
                   dtype_map, remaining, name, shape, dtype, input_size, x, buffer,
                   bound, output_num, printed>>

\* time_eval.CallPacked, which the runtime may fail, and the printed mean.
Timing ==
    /\ pc = "timing"
    /\ calls' = Append(calls, Call("time_eval", <<>>))
    /\ \E ok \in BOOLEAN :
          IF ok
          THEN /\ printed' = Append(printed, [kind |-> "ms", prefix |-> <<>>,
                                              elems |-> <<>>])
               /\ pc' = "exit"
               /\ err' = err
          ELSE /\ Fatal("timing")
               /\ printed' = printed
    /\ UNCHANGED <<world, file_kind, file_data, i, module_path, input_paths,
                   dtype_map, remaining, name, shape, dtype, input_size, x, buffer,
                   bound, output_num>>

\* evaluate returns: the two unique_ptr release arrays made by new[] with
\* delete, which is undefined; the process goes on or dies.
EvaluateExit ==
    /\ pc = "exit"
    /\ \E ok \in BOOLEAN :
          IF ok THEN pc' = "done" /\ err' = err
                ELSE Fatal("delete of new[]")
    /\ UNCHANGED <<world, file_kind, file_data, i, module_path, input_paths,
                   dtype_map, remaining, name, shape, dtype, input_size, x, buffer,
                   bound, output_num, printed, calls>>

Next ==
    \/ Main
    \/ ParseArg
    \/ ParseDone
    \/ DeployGraphExecutor
    \/ InferenceStart
    \/ LoopNext
    \/ Lookup
    \/ Alloc
    \/ Read
    \/ Check
    \/ CopyAndSet
    \/ Run
    \/ GetOutput
    \/ PrintRow
    \/ PrintDone
    \/ Evaluate
    \/ Gather
    \/ Timing
    \/ EvaluateExit

Spec == Init /\ [][Next]_vars

SpecLoader == InitLoader /\ [][Next]_vars

SpecPrint == InitPrint /\ [][Next]_vars

(***************************************************************************)
(* What the properties below speak about.                                  *)
(***************************************************************************)
CallsOf(op) == {k \in 1..Len(calls) : calls[k].op = op}

Called(op) == CallsOf(op) # {}

\* The positions of the call op(arg).
CallsWith(op, arg) == {k \in CallsOf(op) : calls[k].arg = arg}

BoundNames == {bound[k].name : k \in 1..Len(bound)}

\* The inputs the loop of inference has finished with.
Visited == DOMAIN input_paths \ remaining

SupportedDTypes == {"float32", "float16", "int8", "uint8", "int16", "uint16"}

\* The table of the specification: dtype string -> (code, bit width, lanes).
DeclaredType(s) ==
    CASE s = "float32" -> [code |-> kDLFloat, bits |-> 32, lanes |-> 1]
      [] s = "float16" -> [code |-> kDLFloat, bits |-> 16, lanes |-> 1]
      [] s = "int8"    -> [code |-> kDLInt,   bits |-> 8,  lanes |-> 1]
      [] s = "uint8"   -> [code |-> kDLUInt,  bits |-> 8,  lanes |-> 1]
      [] s = "int16"   -> [code |-> kDLInt,   bits |-> 16, lanes |-> 1]
      [] s = "uint16"  -> [code |-> kDLUInt,  bits |-> 16, lanes |-> 1]

RECURSIVE ExactProduct(_)
\* The product of the dimensions as a number, in limbs; no shape of the model
\* reaches 256^SizeLimbs, so nothing is cut off.
ExactProduct(sh) ==
    IF sh = <<>> THEN NatToLimbs(1, SizeLimbs)
    ELSE MulLimbs(NatToLimbs(Head(sh), SizeLimbs), ExactProduct(Tail(sh)))

\* product(shape) * bitwidth / 8, as a number.
ExactSize(sh, bits) == MulLimbs(ExactProduct(sh), NatToLimbs(bits \div 8, SizeLimbs))

RECURSIVE Product(_)
Product(sh) == IF sh = <<>> THEN 1 ELSE Head(sh) * Product(Tail(sh))

NoColon(arg) == \A k \in 1..Len(arg) : arg[k] # ":"

FirstColon(arg) == CHOOSE k \in 1..Len(arg) : arg[k] = ":" /\ NoColon(SubSeq(arg, 1, k - 1))

\* The text before the first colon, and all the text after it.
ArgName(arg) == SubSeq(arg, 1, FirstColon(arg) - 1)
ArgPath(arg) == SubSeq(arg, FirstColon(arg) + 1, Len(arg))

\* The mapping that the optional arguments argv[2..last] describe.
MappingOf(last) ==
    [n \in {ArgName(argv[k]) : k \in 2..last} |->
        LET k == CHOOSE k \in 2..last :
                    /\ ArgName(argv[k]) = n
                    /\ \A j \in (k + 1)..last : ArgName(argv[j]) # n
        IN  ArgPath(argv[k])]

InferenceMode == DOMAIN input_paths # {}

(***************************************************************************)
(* C1 as stated: when the run ends with the length-mismatch error,         *)
(* set_input has been called zero times, however many Named Inputs there   *)
(* are.  (Stated here for the runs in which every declared dtype is one of *)
(* the six supported ones, so that the mismatch is one of a real length.)  *)
(***************************************************************************)
C1_NothingBoundOnMismatch ==
    (/\ err = "size mismatch"
     /\ \A n \in DOMAIN input_info.dtype : input_info.dtype[n] \in SupportedDTypes)
        => bound = <<>> /\ ~Called("set_input")

(***************************************************************************)
(* C1, amended: when the run ends with the length-mismatch error,          *)
(* set_input has not been called for the mismatched input nor for any      *)
(* input the loop had not reached; it has been called exactly once for     *)
(* each input visited before it, each after its own length check passed.   *)
(* So it has been called zero times exactly when the mismatched input is   *)
(* the first one visited.                                                  *)
(***************************************************************************)
C1_MismatchedInputNotBound ==
    err = "size mismatch" =>
        /\ name \in remaining
        /\ BoundNames = Visited
        /\ Len(bound) = Cardinality(Visited)
        /\ Cardinality(CallsOf("set_input")) = Len(bound)
        /\ \A n \in remaining : CallsWith("set_input", n) = {}
        /\ \A n \in Visited :
              \E c \in CallsWith("ICHECK_EQ", n) :
              \E s \in CallsWith("set_input", n) : c < s
        /\ (Visited = {} <=> ~Called("set_input"))

C1_Witness ==
    /\ err = "size mismatch"
    /\ Len(bound) = 1
    /\ Cardinality(DOMAIN input_paths) = 2

(***************************************************************************)
(* C2 as stated: the table maps exactly the six dtype strings to the       *)
(* widths 32, 16, 8, 8, 16, 16 with one lane, and an input whose declared  *)
(* dtype is any other string ends the run with an error: the loader does   *)
(* not go on with some width, and makes no allocation, length check, copy  *)
(* or set_input for it.                                                    *)
(***************************************************************************)
C2_UnknownDTypeRejected ==
    /\ DOMAIN InitialDTypeMap = SupportedDTypes
    /\ \A s \in SupportedDTypes : InitialDTypeMap[s] = DeclaredType(s)
    /\ \A n \in DOMAIN input_info.dtype :
          input_info.dtype[n] \notin SupportedDTypes =>
              /\ name = n => pc \notin {"alloc", "read", "check", "copy"}
              /\ CallsWith("Empty", n) = {}
              /\ CallsWith("ICHECK_EQ", n) = {}
              /\ CallsWith("CopyFromBytes", n) = {}
              /\ CallsWith("set_input", n) = {}

(***************************************************************************)
(* C3: the mapping alone chooses the path.  With an empty mapping only     *)
(* evaluate runs: no file is looked at or read, nothing is bound, and the  *)
(* program calls neither get_input_info nor run.  With a non-empty mapping *)
(* only inference runs: the time evaluator is neither built nor called.    *)
(* A run that completes has taken exactly one of the two.                  *)
(***************************************************************************)
C3_OnePathByMapping ==
    /\ pc \in {"evaluate", "gather", "timing", "exit"} => ~InferenceMode
    /\ pc \in {"inference", "loop", "lookup", "alloc", "read", "check", "copy",
               "output", "print"} => InferenceMode
    /\ ~InferenceMode =>
          /\ \A op \in {"get_input_info", "exists", "ifstream", "read", "Empty",
                        "CopyFromBytes", "set_input", "run", "getenv"} : ~Called(op)
          /\ DOMAIN file_kind = {} /\ DOMAIN file_data = {}
          /\ bound = <<>>
    /\ InferenceMode =>
          \A op \in {"RPCTimeEvaluator", "get_num_inputs", "get_num_outputs",
                     "get_input", "time_eval"} : ~Called(op)
    /\ pc = "done" => (Called("time_eval") <=> ~Called("run"))
    /\ pc = "done" => (Called("time_eval") <=> ~InferenceMode)

C3_Witness ==
    /\ pc = "done"
    /\ ~InferenceMode
    /\ Called("time_eval")
    /\ Len(argv) = 1

(***************************************************************************)
(* C4: when some optional argument holds no colon, the run never gets past *)
(* parsing: it can only end with the format error, and the module has not  *)
(* been loaded and no input file has been checked, opened or read,         *)
(* wherever the malformed argument stands.                                 *)
(***************************************************************************)
C4_FormatErrorBeforeAnyFile ==
    (\E k \in 2..Len(argv) : NoColon(argv[k])) =>
        /\ pc \in {"main", "parse", "abort"}
        /\ pc = "abort" => err = "format"
        /\ calls = <<>>
        /\ DOMAIN file_kind = {}
        /\ DOMAIN file_data = {}

C4_Witness ==
    /\ err = "format"
    /\ Len(argv) = 3
    /\ ~NoColon(argv[2])
    /\ NoColon(argv[3])
    /\ DOMAIN input_paths # {}

(***************************************************************************)
(* C5: every tensor handed to set_input for an input whose file length     *)
(* equals product(shape) * bitwidth / 8 has the declared shape, the dtype  *)
(* of the declared string, and the bytes of the file, in the file's order. *)
(***************************************************************************)
C5_TensorEqualsFile ==
    \A k \in 1..Len(bound) :
        LET n    == bound[k].name
            t    == bound[k].tensor
            file == file_data[input_paths[n]]
            decl == input_info.dtype[n]
        IN  (/\ decl \in SupportedDTypes
             /\ NatToLimbs(Len(file), SizeLimbs)
                    = ExactSize(input_info.shape[n], DeclaredType(decl).bits))
            => /\ t.shape = input_info.shape[n]
               /\ t.dtype = DeclaredType(decl)
               /\ t.filled
               /\ t.data = file

C5_Witness ==
    /\ Len(bound) = 1
    /\ bound[1].tensor.dtype.bits = 16
    /\ bound[1].tensor.data = <<0, 255>>
    /\ file_data[input_paths[bound[1].name]] = <<0, 255>>

C7_MappingLastWins ==
    /\ pc = "parse" => input_paths = MappingOf(i - 1)
    /\ (pc \notin {"main", "parse"} /\ err \notin {"usage", "format"})
          => input_paths = MappingOf(Len(argv))

C7_Witness ==
    /\ pc = "deploy"
    /\ Len(argv) = 3
    /\ ArgName(argv[2]) = ArgName(argv[3])
    /\ ArgPath(argv[2]) # ArgPath(argv[3])
    /\ input_paths[ArgName(argv[3])] = ArgPath(argv[3])

(***************************************************************************)
(* C8 as stated: the tensor of an input is allocated (NDArray::Empty) only *)
(* after that input's length check has passed, so on a length mismatch no  *)
(* tensor has been allocated for the offending input.                      *)
(***************************************************************************)
C8_AllocatedAfterCheck ==
    /\ x # NoTensor => CallsWith("ICHECK_EQ", name) # {}
    /\ err = "size mismatch" => x = NoTensor /\ CallsWith("Empty", name) = {}

(***************************************************************************)
(* C8, amended: the tensor of an input is filled (CopyFromBytes) and bound *)
(* (set_input) only after that input's length check has passed; it is      *)
(* allocated (NDArray::Empty) before the file is read and checked.  So on  *)
(* a length mismatch a tensor has been allocated for the offending input,  *)
(* and nothing has been copied into it and it has not been bound.          *)
(***************************************************************************)
C8_CopyAfterCheck ==
    /\ \A p \in CallsOf("CopyFromBytes") :
          \E c \in CallsWith("ICHECK_EQ", calls[p].arg) : c < p
    /\ \A s \in CallsOf("set_input") :
          \E c \in CallsWith("ICHECK_EQ", calls[s].arg) : c < s
    /\ \A c \in CallsOf("ICHECK_EQ") :
          \E e \in CallsWith("Empty", calls[c].arg) : e < c
    /\ \A r \in CallsOf("read") :
          \E e \in CallsOf("Empty") : e < r
    /\ err = "size mismatch" =>
          /\ CallsWith("Empty", name) # {}
          /\ CallsWith("CopyFromBytes", name) = {}
          /\ CallsWith("set_input", name) = {}
          /\ ~x.filled

C8_Witness ==
    /\ err = "size mismatch"
    /\ CallsWith("Empty", name) # {}
    /\ x.shape = <<2, 3>>
    /\ Len(buffer) = 2

(***************************************************************************)
(* C9: in inference mode run is invoked at most once, and only after every *)
(* entry of the mapping has had its file found, its length check passed    *)
(* and its tensor bound; a run that ends on a missing file, a non-file or  *)
(* a length mismatch has invoked neither run nor get_output; and           *)
(* get_output is called for index 0 only, after run.                       *)
(***************************************************************************)
C9_RunAfterAllBound ==
    InferenceMode =>
        /\ Cardinality(CallsOf("run")) <= 1
        /\ \A r \in CallsOf("run") :
           \A n \in DOMAIN input_paths :
              /\ file_kind[input_paths[n]] = "file"
              /\ \E e \in CallsWith("exists", input_paths[n]) :
                 \E c \in CallsWith("ICHECK_EQ", n) :
                 \E s \in CallsWith("set_input", n) : e < c /\ c < s /\ s < r
        /\ err \in {"not a file", "size mismatch"} =>
              ~Called("run") /\ ~Called("get_output")
        /\ \A g \in CallsOf("get_output") :
              /\ calls[g].arg = 0
              /\ \E r \in CallsOf("run") : r < g

C9_Witness ==
    /\ pc = "done"
    /\ Cardinality(DOMAIN input_paths) = 2
    /\ Called("run")
    /\ Called("get_output")

(***************************************************************************)
(* C10 as stated: for an input of a supported dtype, the expected byte     *)
(* length that the file size is compared with is the product of the        *)
(* dimensions times bitwidth / 8 as a number, also for shapes of 2^31      *)
(* elements or bytes and more.  (Stated here for the shapes on which the   *)
(* program's arithmetic is defined, leaving out those whose int product    *)
(* overflows.)                                                             *)
(***************************************************************************)
C10_ExpectedSizeExact ==
    (/\ pc \in {"alloc", "read", "check", "copy"}
     /\ input_info.dtype[name] \in SupportedDTypes
     /\ Cardinality(InputSizeOutcomes(shape, dtype)) = 1)
        => input_size = ExactSize(shape, dtype.bits)

====
